---- MODULE Spec2Model ----
(***************************************************************************)
(* Tripaneer Booking Manager (src/web3.py), with the helper functions of   *)
(* the browser-driven extractor (src/app.py).                              *)
(*                                                                         *)
(* Python values are encoded as follows.                                   *)
(*   str   a tuple of one-character strings, "ab" is <<"a", "b">>          *)
(*   None  the tuple <<"None">> (no str: its element is not one character) *)
(*   int   an integer                                                      *)
(*   date  a record [year, month, day]                                     *)
(*   dict  a record; a key the dict lacks is a field the record lacks      *)
(*   list  a sequence                                                      *)
(***************************************************************************)
EXTENDS Integers, Sequences, FiniteSets, TLC

VARIABLES
    file,               \* bookings.json on disk: [kind, doc]
    bookings,           \* st.session_state.bookings
    logged_in,          \* st.session_state.logged_in
    scraper_logged_in,  \* st.session_state.scraper.logged_in
    last,               \* observation of the last handler run (history)
    call,               \* harness: the function applied and its arguments
    ret                 \* harness: what the call returned

vars == <<file, bookings, logged_in, scraper_logged_in, last, call, ret>>

---------------------------------------------------------------------------
(* str                                                                     *)

None == <<"None">>

UpperChars ==
    <<"A","B","C","D","E","F","G","H","I","J","K","L","M",
      "N","O","P","Q","R","S","T","U","V","W","X","Y","Z">>

LowerChars ==
    <<"a","b","c","d","e","f","g","h","i","j","k","l","m",
      "n","o","p","q","r","s","t","u","v","w","x","y","z">>

DigitChars == <<"0","1","2","3","4","5","6","7","8","9">>

IsDigit(c) == \E i \in 1..10 : DigitChars[i] = c

DigitValue(c) == (CHOOSE i \in 1..10 : DigitChars[i] = c) - 1

LowerChar(c) ==
    IF \E i \in 1..26 : UpperChars[i] = c
    THEN LowerChars[CHOOSE i \in 1..26 : UpperChars[i] = c]
    ELSE c

\* str.lower()
Lower(s) == [i \in 1..Len(s) |-> LowerChar(s[i])]

\* the characters of the texts, in the order of their code points
CodeOrder ==
    <<"\n", " ", "+", "-", ".", "/">> \o DigitChars \o <<":">> \o UpperChars
        \o <<"_">> \o LowerChars

ord(c) == CHOOSE i \in 1..Len(CodeOrder) : CodeOrder[i] = c

\* a < b for two str
RECURSIVE StrLess(_, _)
StrLess(a, b) ==
    IF b = <<>> THEN FALSE
    ELSE IF a = <<>> THEN TRUE
    ELSE IF Head(a) = Head(b) THEN StrLess(Tail(a), Tail(b))
    ELSE ord(Head(a)) < ord(Head(b))

\* sorted() of a set of str
RECURSIVE sorted(_)
sorted(S) ==
    IF S = {} THEN <<>>
    ELSE LET least == CHOOSE a \in S : \A b \in S \ {a} : StrLess(a, b)
         IN  <<least>> \o sorted(S \ {least})

\* needle in s
Contains(s, needle) ==
    \E k \in 0..(Len(s) - Len(needle)) :
        \A i \in 1..Len(needle) : s[k + i] = needle[i]

\* str.strip(), for the blank
RECURSIVE LStrip(_)
LStrip(s) == IF s # <<>> /\ Head(s) = " " THEN LStrip(Tail(s)) ELSE s

RECURSIVE RStrip(_)
RStrip(s) ==
    IF s # <<>> /\ s[Len(s)] = " " THEN RStrip(SubSeq(s, 1, Len(s) - 1)) ELSE s

Strip(s) == RStrip(LStrip(s))

\* the value of a string of decimal digits
RECURSIVE DigitsValue(_)
DigitsValue(s) ==
    IF s = <<>> THEN 0
    ELSE 10 * DigitsValue(SubSeq(s, 1, Len(s) - 1)) + DigitValue(s[Len(s)])

AllDigits(s) == \A i \in 1..Len(s) : IsDigit(s[i])

\* int(x): [ok, value]; ok is FALSE where int raises ValueError or TypeError.
\* A str converts when, stripped of blanks, it is an optional sign and digits
\* that single underscores may separate.
IntBody(s) == IF s # <<>> /\ s[1] \in {"+", "-"} THEN Tail(s) ELSE s

IntGrouped(b) ==
    /\ b # <<>>
    /\ IsDigit(b[1]) /\ IsDigit(b[Len(b)])
    /\ \A i \in 1..Len(b) : IsDigit(b[i]) \/ b[i] = "_"
    /\ \A i \in 1..(Len(b) - 1) : ~(b[i] = "_" /\ b[i + 1] = "_")

int(x) ==
    IF x = None THEN [ok |-> FALSE, value |-> 0]
    ELSE LET s == Strip(x)
             b == IntBody(s)
             digits == SelectSeq(b, IsDigit)
         IN  IF IntGrouped(b)
             THEN [ok |-> TRUE,
                   value |-> IF s[1] = "-" THEN 0 - DigitsValue(digits)
                             ELSE DigitsValue(digits)]
             ELSE [ok |-> FALSE, value |-> 0]

---------------------------------------------------------------------------
(* datetime                                                                *)

MonthAbbr ==
    << <<"j","a","n">>, <<"f","e","b">>, <<"m","a","r">>, <<"a","p","r">>,
       <<"m","a","y">>, <<"j","u","n">>, <<"j","u","l">>, <<"a","u","g">>,
       <<"s","e","p">>, <<"o","c","t">>, <<"n","o","v">>, <<"d","e","c">> >>

\* strftime("%b")
MonthName ==
    << <<"J","a","n">>, <<"F","e","b">>, <<"M","a","r">>, <<"A","p","r">>,
       <<"M","a","y">>, <<"J","u","n">>, <<"J","u","l">>, <<"A","u","g">>,
       <<"S","e","p">>, <<"O","c","t">>, <<"N","o","v">>, <<"D","e","c">> >>

IsLeap(y) == (y % 4 = 0) /\ ((y % 100 # 0) \/ (y % 400 = 0))

DaysInMonth(y, m) ==
    IF m = 2 THEN (IF IsLeap(y) THEN 29 ELSE 28)
    ELSE IF m \in {4, 6, 9, 11} THEN 30 ELSE 31

RECURSIVE DaysBeforeMonth(_, _)
DaysBeforeMonth(y, m) ==
    IF m = 1 THEN 0 ELSE DaysBeforeMonth(y, m - 1) + DaysInMonth(y, m - 1)

\* date.toordinal()
Ordinal(d) ==
    LET y == d.year - 1
    IN  365 * y + (y \div 4) - (y \div 100) + (y \div 400)
          + DaysBeforeMonth(d.year, d.month) + d.day

NoDate == [year |-> 0, month |-> 0, day |-> 0]

\* the text %d accepts: 3[0-1] | [1-2]\d | 0[1-9] | [1-9] | " "[1-9]
DayField(s) ==
    \/ Len(s) = 1 /\ IsDigit(s[1]) /\ s[1] # "0"
    \/ /\ Len(s) = 2
       /\ \/ s[1] = "3" /\ s[2] \in {"0", "1"}
          \/ s[1] \in {"1", "2"} /\ IsDigit(s[2])
          \/ s[1] \in {"0", " "} /\ IsDigit(s[2]) /\ s[2] # "0"

\* datetime.strptime(x, "%Y-%b-%d"): [err, date], err one of "" (parsed),
\* "ValueError" (the text does not match, or names no day of the calendar)
\* and "TypeError" (x is no str).
strptime(x) ==
    IF x = None THEN [err |-> "TypeError", date |-> NoDate]
    ELSE IF /\ Len(x) \in {11, 12}
            /\ AllDigits(SubSeq(x, 1, 4))
            /\ x[5] = "-"
            /\ \E m \in 1..12 : Lower(SubSeq(x, 6, 8)) = MonthAbbr[m]
            /\ x[9] = "-"
            /\ DayField(SubSeq(x, 10, Len(x)))
         THEN LET y == DigitsValue(SubSeq(x, 1, 4))
                  m == CHOOSE m \in 1..12 : Lower(SubSeq(x, 6, 8)) = MonthAbbr[m]
                  d == DigitsValue(SelectSeq(SubSeq(x, 10, Len(x)), IsDigit))
              IN  IF y >= 1 /\ d <= DaysInMonth(y, m)
                  THEN [err |-> "", date |-> [year |-> y, month |-> m, day |-> d]]
                  ELSE [err |-> "ValueError", date |-> NoDate]
         ELSE [err |-> "ValueError", date |-> NoDate]

\* n as exactly w decimal digits (n < 10^w)
RECURSIVE ZeroPad(_, _)
ZeroPad(n, w) ==
    IF w = 0 THEN <<>> ELSE ZeroPad(n \div 10, w - 1) \o <<DigitChars[(n % 10) + 1]>>

\* date.strftime("%Y-%b-%d")
strftime(d) ==
    ZeroPad(d.year, 4) \o <<"-">> \o MonthName[d.month] \o <<"-">> \o ZeroPad(d.day, 2)

Max(a, b) == IF a >= b THEN a ELSE b

---------------------------------------------------------------------------
(* TripaneerScraper: derivations                                           *)

\* calculate_nights without the minimum of one night
calculate_nights_any(arrival_date, departure_date) ==
    LET a == strptime(arrival_date)
        d == strptime(departure_date)
    IN  IF a.err = "TypeError" THEN [exc |-> "TypeError", value |-> 0]
        ELSE IF a.err = "ValueError" THEN [exc |-> "", value |-> 0]
        ELSE IF d.err = "TypeError" THEN [exc |-> "TypeError", value |-> 0]
        ELSE IF d.err = "ValueError" THEN [exc |-> "", value |-> 0]
        ELSE [exc |-> "", value |-> Ordinal(d.date) - Ordinal(a.date)]

\* calculate_nights: [exc, value]; exc names the exception that leaves the
\* function (only ValueError is caught), "" when it returns value.
calculate_nights(arrival_date, departure_date) ==
    LET a == strptime(arrival_date)
        d == strptime(departure_date)
    IN  IF a.err = "TypeError" THEN [exc |-> "TypeError", value |-> 0]
        ELSE IF a.err = "ValueError" THEN [exc |-> "", value |-> 0]
        ELSE IF d.err = "TypeError" THEN [exc |-> "TypeError", value |-> 0]
        ELSE IF d.err = "ValueError" THEN [exc |-> "", value |-> 0]
        ELSE [exc |-> "", value |-> Max(Ordinal(d.date) - Ordinal(a.date), 1)]

S_7day == <<"7", " ", "d", "a", "y">>

S_taghazout == <<"t", "a", "g", "h", "a", "z", "o", "u", "t">>

S_Taghazout == <<"T", "a", "g", "h", "a", "z", "o", "u", "t">>

S_Tamraght == <<"T", "a", "m", "r", "a", "g", "h", "t">>

\* determine_hostel with "or" for "and"
determine_hostel_either(package_name) ==
    LET package_name_lower == Lower(package_name)
    IN  IF Contains(package_name_lower, S_7day) \/ Contains(package_name_lower, S_taghazout)
        THEN S_Taghazout
        ELSE S_Tamraght

determine_hostel(package_name) ==
    LET package_name_lower == Lower(package_name)
    IN  IF Contains(package_name_lower, S_7day) /\ Contains(package_name_lower, S_taghazout)
        THEN S_Taghazout
        ELSE S_Tamraght

---------------------------------------------------------------------------
(* Literals of the program                                                 *)

S_NotFound == <<"N", "o", "t", " ", "f", "o", "u", "n", "d">>

S_NotAvailable == <<"N", "o", "t", " ", "a", "v", "a", "i", "l", "a", "b", "l", "e">>

S_UnknownRoom == <<"U", "n", "k", "n", "o", "w", "n", " ", "R", "o", "o", "m">>

S_manual == <<"m", "a", "n", "u", "a", "l">>

S_current == <<"c", "u", "r", "r", "e", "n", "t">>

S_upcoming == <<"u", "p", "c", "o", "m", "i", "n", "g">>

S_Current == <<"C", "u", "r", "r", "e", "n", "t">>

S_Upcoming == <<"U", "p", "c", "o", "m", "i", "n", "g">>

S_NA == <<"N", "/", "A">>

S_All == <<"A", "l", "l">>

S_daySurfTrip == <<"-", "d", "a", "y", " ", "s", "u", "r", "f", " ", "t", "r", "i", "p">>

\* TripaneerScraper.base_url
base_url == <<"h", "t", "t", "p", "s", ":", "/", "/", "o", "f", "f", "i", "c", "e", ".", "t", "r", "i", "p", "a", "n", "e", "e", "r", ".", "c", "o", "m">>

---------------------------------------------------------------------------
(* json, and bookings.json                                                 *)
(*                                                                         *)
(* A JSON document is a sequence of objects; an object maps each key to a  *)
(* token [t, s, n]: a "string" with its text s, a "number" with its value  *)
(* n, or "null".                                                           *)

\* the keys of a booking whose value is an int (every other value is a str
\* or None)
IntKeys == {"number_of_nights"}

\* JsonEncode that writes None as the text of str(None)
JsonEncode_text(k, v) ==
    IF k \in IntKeys THEN [t |-> "number", s |-> <<>>, n |-> v]
    ELSE IF v = None THEN [t |-> "string", s |-> <<"N", "o", "n", "e">>, n |-> 0]
    ELSE [t |-> "string", s |-> v, n |-> 0]

\* json.dump of one value: an int as a number, None as null, a str as a string
JsonEncode(k, v) ==
    IF k \in IntKeys THEN [t |-> "number", s |-> <<>>, n |-> v]
    ELSE IF v = None THEN [t |-> "null", s |-> <<>>, n |-> 0]
    ELSE [t |-> "string", s |-> v, n |-> 0]

\* JsonDecode that reads every number as 0
JsonDecode_zero(tok) ==
    IF tok.t = "number" THEN 0
    ELSE IF tok.t = "null" THEN None
    ELSE tok.s

\* json.load of one token
JsonDecode(tok) ==
    IF tok.t = "number" THEN tok.n
    ELSE IF tok.t = "null" THEN None
    ELSE tok.s

\* json.dump(bookings, f, indent=2, ensure_ascii=False): the document written
json_dump(bs) ==
    [i \in 1..Len(bs) |-> [k \in DOMAIN bs[i] |-> JsonEncode(k, bs[i][k])]]

\* json.load(f) of a well-formed document
json_load(doc) ==
    [i \in 1..Len(doc) |-> [k \in DOMAIN doc[i] |-> JsonDecode(doc[i][k])]]

\* The states of bookings.json: no file; a file holding a JSON document; a
\* file whose text is no JSON document (cut short, or empty); a file whose
\* bytes are no UTF-8 text.
NoFile == [kind |-> "absent", doc |-> <<>>]

JsonFile(doc) == [kind |-> "json", doc |-> doc]

TruncatedFile == [kind |-> "truncated", doc |-> <<>>]

UndecodableFile == [kind |-> "undecodable", doc |-> <<>>]

\* the outcomes of opening and reading the file, and of opening and writing it
ReadOutcomes == {"ok", "IOError"}

WriteOutcomes == {"ok", "IOError_open", "IOError_write"}

\* the outcomes of a read of f: a file that os.path.exists does not find is
\* not opened
Reads(f) == IF f.kind = "absent" THEN {"ok"} ELSE ReadOutcomes

\* load_bookings_from_json: [exc, value]; exc names the exception that leaves
\* the function, "" when it returns value. IOError and json.JSONDecodeError
\* are caught; UnicodeDecodeError is a ValueError that is neither.
load_bookings_from_json(f, read) ==
    IF f.kind = "absent" THEN [exc |-> "", value |-> <<>>]
    ELSE IF read = "IOError" THEN [exc |-> "", value |-> <<>>]
    ELSE IF f.kind = "undecodable" THEN [exc |-> "UnicodeDecodeError", value |-> <<>>]
    ELSE IF f.kind = "truncated" THEN [exc |-> "", value |-> <<>>]
    ELSE [exc |-> "", value |-> json_load(f.doc)]

\* save_bookings_to_json: the file afterwards. open(filename, 'w') that fails
\* leaves the file as it was; a write that fails after the open has emptied
\* the file leaves a text that is cut short. The IOError is caught.
save_bookings_to_json(f, bs, write) ==
    IF write = "ok" THEN JsonFile(json_dump(bs))
    ELSE IF write = "IOError_open" THEN f
    ELSE TruncatedFile

\* IsManual that keeps every stored booking
IsManual_any(b) == DOMAIN b # {}

\* b.get('source') == 'manual'
IsManual(b) == "source" \in DOMAIN b /\ b.source = S_manual

---------------------------------------------------------------------------
(* TripaneerScraper: extraction                                            *)
(*                                                                         *)
(* A conversation page, as the scraper meets it:                           *)
(*   fault   where an exception is raised: "none", "get" (the request),    *)
(*           "guests" or "room" (while that value is read)                 *)
(*   status  the response's status code                                    *)
(*   guests  the text of the dd next to the dt holding 'Guests', None when *)
(*           the page has no such pair                                     *)
(*   room    likewise for 'Room'                                           *)
(* A list item of the overview page:                                       *)
(*   name_div, name    div.customer-name is there; the text of its strong  *)
(*                     (None: it holds no strong)                          *)
(*   title_div, title  div.listing-title is there; the text of its p       *)
(*   meta_div, strongs div.inquiry-meta is there; the texts of its strongs *)
(*   btn_href          href of a.btn.btn-info (None: no such link)         *)
(*   mobile_href       href of a.mobile-link (None: no such link)          *)
(*   page              the conversation page behind the link               *)

HTTP_OK == 200

UpperChar(c) ==
    IF \E i \in 1..26 : LowerChars[i] = c
    THEN UpperChars[CHOOSE i \in 1..26 : LowerChars[i] = c]
    ELSE c

\* str.capitalize() that leaves the text as it is
Capitalize_none(s) == s

\* str.capitalize()
Capitalize(s) ==
    [i \in 1..Len(s) |-> IF i = 1 THEN UpperChar(s[i]) ELSE LowerChar(s[i])]

\* re.findall(r'\d+', s)[0], <<>> when s holds no digit
RECURSIVE DigitRun(_)
DigitRun(s) ==
    IF s = <<>> \/ ~IsDigit(Head(s)) THEN <<>> ELSE <<Head(s)>> \o DigitRun(Tail(s))

RECURSIVE FirstNumber(_)
FirstNumber(s) ==
    IF s = <<>> THEN <<>>
    ELSE IF IsDigit(Head(s)) THEN DigitRun(s)
    ELSE FirstNumber(Tail(s))

\* s.split('\n')[0]
RECURSIVE FirstLine(_)
FirstLine(s) ==
    IF s = <<>> \/ Head(s) = "\n" THEN <<>> ELSE <<Head(s)>> \o FirstLine(Tail(s))

\* extract_guest_and_room_info: [guests, room_type]. Every exception is
\* caught, and what was assigned before it is returned.
extract_guest_and_room_info(page) ==
    LET guests ==
            IF page.fault \in {"get", "guests"} \/ page.status # HTTP_OK
               \/ page.guests = None
            THEN S_NotFound
            ELSE LET guests_text == Strip(page.guests)
                 IN  IF FirstNumber(guests_text) # <<>>
                     THEN FirstNumber(guests_text)
                     ELSE guests_text
        room_type ==
            IF page.fault # "none" \/ page.status # HTTP_OK \/ page.room = None
            THEN S_NotFound
            ELSE FirstLine(Strip(page.room))
    IN  [guests |-> guests, room_type |-> room_type]

\* The body of the loop of extract_bookings_from_list for one item:
\* [exc, gets, booking]; exc is TRUE when an exception leaves the body (the
\* item holds a div.customer-name without strong, or a div.listing-title
\* without p), and the loop's except clause then skips the item; gets are
\* the addresses the body has requested with session.get.
extract_item(item, booking_type) ==
    LET full_name == IF item.name_div THEN item.name ELSE S_NotFound
        package_name == IF item.title_div THEN item.title ELSE S_NotFound
        strong_elements == IF item.meta_div THEN item.strongs ELSE <<>>
        price == IF Len(strong_elements) > 0 THEN strong_elements[1] ELSE S_NotFound
        arrival_date ==
            IF Len(strong_elements) > 1 THEN strong_elements[2] ELSE S_NotFound
        departure_date ==
            IF Len(strong_elements) > 2 THEN strong_elements[3] ELSE S_NotFound
        nights ==
            IF arrival_date # S_NotFound /\ departure_date # S_NotFound
            THEN calculate_nights(arrival_date, departure_date).value
            ELSE 0
        conversation_link ==
            IF item.btn_href # None /\ item.btn_href # <<>>
            THEN base_url \o item.btn_href
            ELSE IF item.mobile_href # None /\ item.mobile_href # <<>>
            THEN base_url \o item.mobile_href
            ELSE None
        info ==
            IF conversation_link # None
            THEN extract_guest_and_room_info(item.page)
            ELSE [guests |-> S_NotAvailable, room_type |-> S_NotAvailable]
    IN  IF full_name = None \/ package_name = None
        THEN [exc |-> TRUE, gets |-> <<>>, booking |-> [full_name |-> S_NotFound]]
        ELSE [exc |-> FALSE,
              gets |-> IF conversation_link # None THEN <<conversation_link>> ELSE <<>>,
              booking |->
                [full_name |-> full_name,
                 package_name |-> package_name,
                 hostel |-> determine_hostel(package_name),
                 price |-> price,
                 arrival_date |-> arrival_date,
                 departure_date |-> departure_date,
                 number_of_nights |-> nights,
                 number_of_guests |-> info.guests,
                 room_type |-> info.room_type,
                 conversation_link |-> conversation_link,
                 booking_type |-> Capitalize(booking_type)]]

\* extract_bookings_from_list that gives up at the first item that raises
RECURSIVE extract_bookings_from_list_abort(_, _)
extract_bookings_from_list_abort(booking_items, booking_type) ==
    IF booking_items = <<>> THEN <<>>
    ELSE LET r == extract_item(Head(booking_items), booking_type)
             rest == extract_bookings_from_list_abort(Tail(booking_items), booking_type)
         IN  IF r.exc THEN <<>> ELSE <<r.booking>> \o rest

RECURSIVE extract_bookings_from_list(_, _)
extract_bookings_from_list(booking_items, booking_type) ==
    IF booking_items = <<>> THEN <<>>
    ELSE LET r == extract_item(Head(booking_items), booking_type)
             rest == extract_bookings_from_list(Tail(booking_items), booking_type)
         IN  IF r.exc THEN rest ELSE <<r.booking>> \o rest

\* the addresses extract_bookings_from_list requests with session.get
RECURSIVE extract_bookings_from_list_gets(_, _)
extract_bookings_from_list_gets(booking_items, booking_type) ==
    IF booking_items = <<>> THEN <<>>
    ELSE extract_item(Head(booking_items), booking_type).gets
         \o extract_bookings_from_list_gets(Tail(booking_items), booking_type)

\* the items extract_bookings_from_list warns about, by their index
extract_bookings_from_list_warnings(booking_items, booking_type) ==
    {i \in 1..Len(booking_items) : extract_item(booking_items[i], booking_type).exc}

bookings_url ==
    base_url \o <<"/", "4", "/", "o", "r", "g", "a", "n", "i", "z", "e", "r", "s",
                  "/", "6", "5", "6", "3", "9", "/", "b", "o", "o", "k", "i", "n",
                  "g", "s", "-", "o", "v", "e", "r", "v", "i", "e", "w", "/">>

\* the addresses extract_booking_data requests with session.get
extract_booking_data_gets(scraper_in, overview) ==
    IF ~scraper_in THEN <<>>
    ELSE IF overview.fault \/ overview.status # HTTP_OK THEN <<bookings_url>>
    ELSE <<bookings_url>>
         \o
         (IF Len(overview.lists) > 0
          THEN extract_bookings_from_list_gets(overview.lists[1], S_current)
          ELSE <<>>)
         \o
         (IF Len(overview.lists) > 1
          THEN extract_bookings_from_list_gets(overview.lists[2], S_upcoming)
          ELSE <<>>)

\* what extract_booking_data reports with st.error: "" when nothing
extract_booking_data_error(scraper_in, overview) ==
    IF ~scraper_in THEN "Please login first"
    ELSE IF overview.fault THEN "Error fetching bookings page"
    ELSE IF overview.status # HTTP_OK THEN "Failed to fetch bookings page"
    ELSE ""

\* extract_booking_data with the two lists taken for each other
extract_booking_data_swapped(scraper_in, overview) ==
    IF ~scraper_in THEN <<>>
    ELSE IF overview.fault \/ overview.status # HTTP_OK THEN <<>>
    ELSE (IF Len(overview.lists) > 0
          THEN extract_bookings_from_list(overview.lists[1], S_upcoming)
          ELSE <<>>)
         \o
         (IF Len(overview.lists) > 1
          THEN extract_bookings_from_list(overview.lists[2], S_current)
          ELSE <<>>)

\* extract_booking_data without the check of the status code
extract_booking_data_anystatus(scraper_in, overview) ==
    IF ~scraper_in THEN <<>>
    ELSE IF overview.fault THEN <<>>
    ELSE (IF Len(overview.lists) > 0
          THEN extract_bookings_from_list(overview.lists[1], S_current)
          ELSE <<>>)
         \o
         (IF Len(overview.lists) > 1
          THEN extract_bookings_from_list(overview.lists[2], S_upcoming)
          ELSE <<>>)

\* extract_booking_data. The overview page: fault is TRUE when the request
\* raises, status is the response's status code, lists are the
\* ul.recent-inquiries--new of the page, each the sequence of its li.
extract_booking_data(scraper_in, overview) ==
    IF ~scraper_in THEN <<>>
    ELSE IF overview.fault \/ overview.status # HTTP_OK THEN <<>>
    ELSE (IF Len(overview.lists) > 0
          THEN extract_bookings_from_list(overview.lists[1], S_current)
          ELSE <<>>)
         \o
         (IF Len(overview.lists) > 1
          THEN extract_bookings_from_list(overview.lists[2], S_upcoming)
          ELSE <<>>)

---------------------------------------------------------------------------
(* Display functions: what each computes                                   *)

\* dict.get(key)
Get(b, k) == IF k \in DOMAIN b THEN b[k] ELSE None

\* the truth value of a str or None
Truthy(v) == v # None /\ v # <<>>

\* parse_date: the date, or NoDate for None
parse_date(date_str) ==
    LET r == strptime(date_str) IN IF r.err = "" THEN r.date ELSE NoDate

RECURSIVE CountType(_, _)
CountType(bs, type) ==
    IF bs = <<>> THEN 0
    ELSE (IF Head(bs).booking_type = type THEN 1 ELSE 0) + CountType(Tail(bs), type)

\* GuestsOf with str.isdigit() for the int() that may fail
GuestsOf_isdigit(b) ==
    IF b.number_of_guests # <<>> /\ AllDigits(b.number_of_guests)
    THEN DigitsValue(b.number_of_guests)
    ELSE 0

\* what one booking adds to total_guests in display_booking_stats
GuestsOf(b) ==
    IF b.number_of_guests # S_NotFound /\ b.number_of_guests # S_NotAvailable
       /\ int(b.number_of_guests).ok
    THEN int(b.number_of_guests).value
    ELSE 0

RECURSIVE SumGuests(_)
SumGuests(bs) == IF bs = <<>> THEN 0 ELSE GuestsOf(Head(bs)) + SumGuests(Tail(bs))

\* display_booking_stats: the four metrics; shown is FALSE when the function
\* returns before it computes them (no bookings).
display_booking_stats(bs) ==
    IF bs = <<>>
    THEN [shown |-> FALSE, total |-> 0, current |-> 0, upcoming |-> 0,
          total_guests |-> 0]
    ELSE [shown |-> TRUE,
          total |-> Len(bs),
          current |-> CountType(bs, S_Current),
          upcoming |-> CountType(bs, S_Upcoming),
          total_guests |-> SumGuests(bs)]

\* display_current_guests_by_hostel: hostel_groups, each hostel mapped to its
\* room_groups; the empty mapping when there is no current booking.
display_current_guests_by_hostel(bs) ==
    LET IsCurrent(b) == b.booking_type = S_Current
        current_bookings == SelectSeq(bs, IsCurrent)
        room_of(b) == IF b.room_type # S_NotFound THEN b.room_type ELSE S_UnknownRoom
        hostels == {current_bookings[i].hostel : i \in 1..Len(current_bookings)}
        bookings_list(h) == LET At(b) == b.hostel = h IN SelectSeq(current_bookings, At)
        rooms(h) == {room_of(bookings_list(h)[i]) : i \in 1..Len(bookings_list(h))}
    IN  [h \in hostels |->
            [r \in rooms(h) |->
                LET In(b) == room_of(b) = r IN SelectSeq(bookings_list(h), In)]]

\* display_specific_day_movements with elif for the departure
display_specific_day_movements_elif(bs, selected_date) ==
    LET Arrives(b) == parse_date(b.arrival_date) = selected_date
        Departs(b) ==
            ~Arrives(b) /\ parse_date(b.departure_date) = selected_date
    IN  [arrivals |-> SelectSeq(bs, Arrives), departures |-> SelectSeq(bs, Departs)]

\* display_specific_day_movements: the two lists it writes
display_specific_day_movements(bs, selected_date) ==
    LET Arrives(b) == parse_date(b.arrival_date) = selected_date
        Departs(b) == parse_date(b.departure_date) = selected_date
    IN  [arrivals |-> SelectSeq(bs, Arrives), departures |-> SelectSeq(bs, Departs)]

\* d == day + timedelta(days=1), for two dates
IsNextDay(d, day) == d # NoDate /\ Ordinal(d) = Ordinal(day) + 1

\* display_todays_movements: the four lists it writes
display_todays_movements(bs, today) ==
    LET ArrivesToday(b) == parse_date(b.arrival_date) = today
        ArrivesTomorrow(b) ==
            ~ArrivesToday(b) /\ IsNextDay(parse_date(b.arrival_date), today)
        DepartsToday(b) == parse_date(b.departure_date) = today
        DepartsTomorrow(b) ==
            ~DepartsToday(b) /\ IsNextDay(parse_date(b.departure_date), today)
    IN  [today_arrivals |-> SelectSeq(bs, ArrivesToday),
         today_departures |-> SelectSeq(bs, DepartsToday),
         tomorrow_arrivals |-> SelectSeq(bs, ArrivesTomorrow),
         tomorrow_departures |-> SelectSeq(bs, DepartsTomorrow)]

\* occupancy_selected with the bounds of the range left out
occupancy_selected_strict(b, selected_hostel, start, end) ==
    LET hostel == Get(b, "hostel")
        arrival_date == parse_date(Get(b, "arrival_date"))
        departure_date == parse_date(Get(b, "departure_date"))
        number_of_guests == Get(b, "number_of_guests")
    IN  /\ Truthy(hostel) /\ arrival_date # NoDate /\ departure_date # NoDate
        /\ Truthy(number_of_guests)
        /\ number_of_guests \notin {S_NotFound, S_NotAvailable}
        /\ int(number_of_guests).ok
        /\ Ordinal(arrival_date) < Ordinal(end)
        /\ Ordinal(departure_date) > Ordinal(start)
        /\ (selected_hostel = S_All \/ hostel = selected_hostel)

\* the filter of display_occupancy_by_hostel for one booking
occupancy_selected(b, selected_hostel, start, end) ==
    LET hostel == Get(b, "hostel")
        arrival_date == parse_date(Get(b, "arrival_date"))
        departure_date == parse_date(Get(b, "departure_date"))
        number_of_guests == Get(b, "number_of_guests")
    IN  /\ Truthy(hostel) /\ arrival_date # NoDate /\ departure_date # NoDate
        /\ Truthy(number_of_guests)
        /\ number_of_guests \notin {S_NotFound, S_NotAvailable}
        /\ int(number_of_guests).ok
        /\ Ordinal(arrival_date) <= Ordinal(end)
        /\ Ordinal(departure_date) >= Ordinal(start)
        /\ (selected_hostel = S_All \/ hostel = selected_hostel)

RECURSIVE HostelGuests(_, _)
HostelGuests(bs, hostel) ==
    IF bs = <<>> THEN 0
    ELSE (IF Head(bs).hostel = hostel THEN int(Head(bs).number_of_guests).value ELSE 0)
         + HostelGuests(Tail(bs), hostel)

\* HostelDepartures that keeps one booking for each departure_date
HostelDepartures_first(bs, hostel) ==
    LET At(b) == b.hostel = hostel
        mine == SelectSeq(bs, At)
        keys == sorted({mine[i].departure_date : i \in 1..Len(mine)})
    IN  [k \in 1..Len(keys) |->
            LET On(b) == b.departure_date = keys[k]
            IN  [date_str |-> keys[k], departures_list |-> <<Head(SelectSeq(mine, On))>>]]

\* the 'departures' of one hostel as they are written: for each
\* departure_date text of the hostel's bookings, in the order of sorted(),
\* the text and the bookings that hold it
HostelDepartures(bs, hostel) ==
    LET At(b) == b.hostel = hostel
        mine == SelectSeq(bs, At)
        keys == sorted({mine[i].departure_date : i \in 1..Len(mine)})
    IN  [k \in 1..Len(keys) |->
            LET On(b) == b.departure_date = keys[k]
            IN  [date_str |-> keys[k], departures_list |-> SelectSeq(mine, On)]]

\* display_occupancy_by_hostel with the dates rejected when start >= end
display_occupancy_by_hostel_ge(bs, selected_hostel, start, end) ==
    IF Ordinal(start) >= Ordinal(end)
    THEN [error |-> TRUE, filtered |-> <<>>, guests |-> <<>>, departures |-> <<>>]
    ELSE LET Sel(b) == occupancy_selected(b, selected_hostel, start, end)
             filtered == SelectSeq(bs, Sel)
             hostels == {filtered[i].hostel : i \in 1..Len(filtered)}
         IN  [error |-> FALSE,
              filtered |-> filtered,
              guests |-> [h \in hostels |-> HostelGuests(filtered, h)],
              departures |-> [h \in hostels |-> HostelDepartures(filtered, h)]]

\* display_occupancy_by_hostel: error is TRUE when the dates are rejected;
\* filtered is filtered_bookings; guests maps each hostel of hostel_occupancy
\* to its 'guests', departures to its departure buckets as they are written.
display_occupancy_by_hostel(bs, selected_hostel, start, end) ==
    IF Ordinal(start) > Ordinal(end)
    THEN [error |-> TRUE, filtered |-> <<>>, guests |-> <<>>, departures |-> <<>>]
    ELSE LET Sel(b) == occupancy_selected(b, selected_hostel, start, end)
             filtered == SelectSeq(bs, Sel)
             hostels == {filtered[i].hostel : i \in 1..Len(filtered)}
         IN  [error |-> FALSE,
              filtered |-> filtered,
              guests |-> [h \in hostels |-> HostelGuests(filtered, h)],
              departures |-> [h \in hostels |-> HostelDepartures(filtered, h)]]

---------------------------------------------------------------------------
(* app.py: the extraction with a browser, of the same pages. The browser   *)
(* shows a page whatever its status code, gives the href of an anchor as   *)
(* an absolute address, and raises NoSuchElementException for an element   *)
(* that is not there.                                                      *)

\* s.replace(old, "")
RECURSIVE Remove(_, _)
Remove(s, old) ==
    IF Len(s) < Len(old) \/ old = <<>> THEN s
    ELSE IF SubSeq(s, 1, Len(old)) = old
    THEN Remove(SubSeq(s, Len(old) + 1, Len(s)), old)
    ELSE <<Head(s)>> \o Remove(Tail(s), old)

S_persons == <<"p", "e", "r", "s", "o", "n", "s">>

S_person == <<"p", "e", "r", "s", "o", "n">>

\* app.py extract_guest_and_room_info: [guests, room_type]
app_extract_guest_and_room_info(page) ==
    LET guests ==
            IF page.fault \in {"get", "guests"} \/ page.guests = None
            THEN S_NotFound
            ELSE Strip(Remove(Remove(page.guests, S_persons), S_person))
        room_type ==
            IF page.fault # "none" \/ page.room = None
            THEN S_NotFound
            ELSE Strip(FirstLine(page.room))
    IN  [guests |-> guests, room_type |-> room_type]

\* The body of the loop of app.py extract_booking_data for one item:
\* [exc, booking]; exc is TRUE when an exception leaves the body: one of the
\* three blocks, the name or the title inside them, or the first strong of
\* inquiry-meta is not there.
app_extract_item(item) ==
    LET strong_elements == IF item.meta_div THEN item.strongs ELSE <<>>
        full == Len(strong_elements) >= 3
        arrival_date == IF full THEN Strip(strong_elements[2]) ELSE None
        departure_date == IF full THEN Strip(strong_elements[3]) ELSE None
        nights ==
            IF Truthy(arrival_date) /\ Truthy(departure_date)
            THEN calculate_nights(arrival_date, departure_date).value
            ELSE 0
        conversation_link ==
            IF item.btn_href # None
            THEN (IF item.btn_href = <<>> THEN bookings_url ELSE base_url \o item.btn_href)
            ELSE IF item.mobile_href # None
            THEN (IF item.mobile_href = <<>> THEN bookings_url
                  ELSE base_url \o item.mobile_href)
            ELSE None
        info ==
            IF conversation_link # None
            THEN app_extract_guest_and_room_info(item.page)
            ELSE [guests |-> S_NotAvailable, room_type |-> S_NotAvailable]
    IN  IF \/ ~item.name_div \/ item.name = None
           \/ ~item.title_div \/ item.title = None
           \/ ~item.meta_div \/ Len(item.strongs) = 0
        THEN [exc |-> TRUE, booking |-> [full_name |-> S_NotFound]]
        ELSE [exc |-> FALSE,
              booking |->
                [full_name |-> Strip(item.name),
                 package_name |-> Strip(item.title),
                 hostel |-> determine_hostel(Strip(item.title)),
                 price |-> Strip(strong_elements[1]),
                 arrival_date |-> arrival_date,
                 departure_date |-> departure_date,
                 number_of_nights |-> nights,
                 number_of_guests |-> info.guests,
                 room_type |-> info.room_type,
                 conversation_link |-> conversation_link]]

RECURSIVE app_extract_items(_)
app_extract_items(booking_items) ==
    IF booking_items = <<>> THEN <<>>
    ELSE LET r == app_extract_item(Head(booking_items))
             rest == app_extract_items(Tail(booking_items))
         IN  IF r.exc THEN rest ELSE <<r.booking>> \o rest

\* app.py extract_booking_data, of the overview page the browser shows: the
\* first ul.recent-inquiries--new only; the wait for it times out, and
\* nothing is extracted, when the page holds none.
app_extract_booking_data(overview) ==
    IF Len(overview.lists) = 0 THEN <<>>
    ELSE app_extract_items(overview.lists[1])

---------------------------------------------------------------------------
(* The manual booking form                                                 *)

\* str(n) of a natural number
RECURSIVE NatStr(_)
NatStr(n) ==
    IF n < 10 THEN <<DigitChars[n + 1]>>
    ELSE NatStr(n \div 10) \o <<DigitChars[(n % 10) + 1]>>

\* str(n)
Str(n) == IF n < 0 THEN <<"-">> \o NatStr(0 - n) ELSE NatStr(n)

\* not all([full_name, arrival_date, departure_date, room_type]): a date is
\* always true, a str is true when it is not empty
form_incomplete(form) == form.full_name = <<>> \/ form.room_type = <<>>

\* booking_data with 'Current' for a stay that has begun, ended or not
manual_booking_begun(form, now) ==
    LET nights == Ordinal(form.departure_date) - Ordinal(form.arrival_date)
        booking_type ==
            IF Ordinal(form.arrival_date) <= Ordinal(now)
            THEN S_Current
            ELSE S_Upcoming
    IN  [full_name |-> form.full_name,
         package_name |->
            IF form.package_name # <<>> THEN form.package_name
            ELSE Str(nights) \o S_daySurfTrip,
         hostel |-> form.hostel,
         price |-> form.price,
         arrival_date |-> strftime(form.arrival_date),
         departure_date |-> strftime(form.departure_date),
         number_of_nights |-> nights,
         number_of_guests |-> Str(form.number_of_guests),
         room_type |-> form.room_type,
         conversation_link |->
            IF form.conversation_link # <<>> THEN form.conversation_link
            ELSE S_NotFound,
         source |-> S_manual,
         booking_type |-> booking_type]

\* booking_data of add_manual_booking_form
manual_booking(form, now) ==
    LET nights == Ordinal(form.departure_date) - Ordinal(form.arrival_date)
        booking_type ==
            IF Ordinal(form.arrival_date) <= Ordinal(now)
               /\ Ordinal(form.departure_date) >= Ordinal(now)
            THEN S_Current
            ELSE S_Upcoming
    IN  [full_name |-> form.full_name,
         package_name |->
            IF form.package_name # <<>> THEN form.package_name
            ELSE Str(nights) \o S_daySurfTrip,
         hostel |-> form.hostel,
         price |-> form.price,
         arrival_date |-> strftime(form.arrival_date),
         departure_date |-> strftime(form.departure_date),
         number_of_nights |-> nights,
         number_of_guests |-> Str(form.number_of_guests),
         room_type |-> form.room_type,
         conversation_link |->
            IF form.conversation_link # <<>> THEN form.conversation_link
            ELSE S_NotFound,
         source |-> S_manual,
         booking_type |-> booking_type]

---------------------------------------------------------------------------
(* The inputs explored                                                     *)

\* the most manual bookings that bookings.json comes to hold
MaxManual == 1

Date(y, m, d) == [year |-> y, month |-> m, day |-> d]

\* datetime.now().date(), at the runs explored
Days == {Date(2024, 1, 15)}

T_Alice == <<"A", "l", "i", "c", "e">>

T_Bob == <<"B", "o", "b">>

T_Dorm == <<"D", "o", "r", "m">>

T_7DaySurfTaghazout == <<"7", " ", "D", "a", "y", " ", "S", "u", "r", "f", " ", "T", "a", "g", "h", "a", "z", "o", "u", "t", " ", "P", "a", "c", "k", "a", "g", "e">>

T_WeekendTamraght == <<"W", "e", "e", "k", "e", "n", "d", " ", "T", "a", "m", "r", "a", "g", "h", "t", " ", "T", "r", "i", "p">>

T_7DayEssaouira == <<"7", " ", "D", "a", "y", " ", "E", "s", "s", "a", "o", "u", "i", "r", "a", " ", "T", "r", "i", "p">>

T_Price == <<"1", "0", "0">>

T_Jan15 == <<"2", "0", "2", "4", "-", "J", "a", "n", "-", "1", "5">>

T_Feb02 == <<"2", "0", "2", "4", "-", "F", "e", "b", "-", "0", "2">>

T_Dec31 == <<"2", "0", "2", "3", "-", "D", "e", "c", "-", "3", "1">>

T_Feb30 == <<"2", "0", "2", "4", "-", "F", "e", "b", "-", "3", "0">>

T_Href1 == <<"/", "c", "/", "1">>

T_Href2 == <<"/", "c", "/", "2">>

T_2persons == <<"2", " ", "p", "e", "r", "s", "o", "n", "s">>

T_Private == <<"P", "r", "i", "v", "a", "t", "e", " ", "R", "o", "o", "m">>

PageOk == [fault |-> "none", status |-> HTTP_OK, guests |-> T_2persons, room |-> T_Private]

PageDown == [fault |-> "get", status |-> HTTP_OK, guests |-> None, room |-> None]

\* a stay of the current list, found complete
ItemA ==
    [name_div |-> TRUE, name |-> T_Alice, title_div |-> TRUE,
     title |-> T_7DaySurfTaghazout, meta_div |-> TRUE,
     strongs |-> <<T_Price, T_Jan15, T_Feb02>>,
     btn_href |-> T_Href1, mobile_href |-> None, page |-> PageOk]

\* no inquiry-meta, no link
ItemB ==
    [name_div |-> TRUE, name |-> T_Bob, title_div |-> TRUE,
     title |-> T_WeekendTamraght, meta_div |-> FALSE, strongs |-> <<>>,
     btn_href |-> None, mobile_href |-> None, page |-> PageDown]

\* no customer-name div, departure before arrival, the link of the mobile
\* layout, a conversation page that cannot be fetched
ItemC ==
    [name_div |-> FALSE, name |-> None, title_div |-> TRUE,
     title |-> T_7DayEssaouira, meta_div |-> TRUE,
     strongs |-> <<T_Price, T_Feb02, T_Jan15>>,
     btn_href |-> None, mobile_href |-> T_Href2, page |-> PageDown]

\* a departure date that is no day of the calendar
ItemD ==
    [name_div |-> TRUE, name |-> T_Bob, title_div |-> TRUE,
     title |-> T_7DaySurfTaghazout, meta_div |-> TRUE,
     strongs |-> <<T_Price, T_Jan15, T_Feb30>>,
     btn_href |-> None, mobile_href |-> None, page |-> PageDown]

\* a customer-name div without a strong element: reading it raises and the
\* item is skipped
ItemE == [ItemA EXCEPT !.name = None]

Overviews ==
    { [fault |-> TRUE, status |-> HTTP_OK, lists |-> <<>>],
      [fault |-> FALSE, status |-> 500, lists |-> << <<ItemA>> >>],
      [fault |-> FALSE, status |-> HTTP_OK, lists |-> << <<ItemA>>, <<ItemB>> >>],
      [fault |-> FALSE, status |-> HTTP_OK, lists |-> << <<ItemC, ItemE>>, <<ItemD>> >>] }

FormA ==
    [full_name |-> T_Alice, package_name |-> T_7DaySurfTaghazout,
     arrival_date |-> Date(2024, 1, 15), departure_date |-> Date(2024, 2, 2),
     hostel |-> S_Taghazout, room_type |-> T_Dorm, number_of_guests |-> 2,
     price |-> S_NA, conversation_link |-> <<>>]

Forms ==
    { FormA,
      [FormA EXCEPT !.hostel = S_Tamraght, !.departure_date = Date(2024, 1, 15)],
      [FormA EXCEPT !.package_name = <<>>, !.hostel = S_Tamraght,
                    !.arrival_date = Date(2024, 2, 2),
                    !.departure_date = Date(2024, 1, 15)],
      [FormA EXCEPT !.price = <<>>],
      [FormA EXCEPT !.full_name = <<>>],
      [FormA EXCEPT !.room_type = <<>>] }

---------------------------------------------------------------------------
(* The application: main() and its handlers                                *)

NoCall == [fn |-> "none"]

NoRet == [done |-> FALSE]

\* what is recorded of a handler's run: the handler, the exception that ended
\* it ("" when it ran to its end), the outcomes of its read and of its write
\* of bookings.json ("-": none was made), the file before it, and the
\* bookings it scraped or the booking it built
Obs(op, exc, read, write, before, made) ==
    [op |-> op, exc |-> exc, read |-> read, write |-> write,
     before |-> before, made |-> made]

Init ==
    /\ file = NoFile
    /\ bookings = <<>>
    /\ logged_in = FALSE
    /\ scraper_logged_in = FALSE
    /\ last = Obs("start", "", "-", "-", NoFile, <<>>)
    /\ call = NoCall
    /\ ret = NoRet

\* Login that logs the user out when it fails
Login_reset(outcome) ==
    /\ IF outcome = "status_200"
       THEN scraper_logged_in' = TRUE /\ logged_in' = TRUE
       ELSE scraper_logged_in' = FALSE /\ logged_in' = FALSE
    /\ last' = Obs("login", IF outcome = "status_200" THEN "" ELSE outcome,
                   "-", "-", file, <<>>)
    /\ UNCHANGED <<file, bookings, call, ret>>

\* the Login button; outcome is what TripaneerScraper.login meets: the POST
\* answered with status 200, with another status, or an exception, which
\* login catches; a login that fails is recorded with its outcome
Login(outcome) ==
    /\ IF outcome = "status_200"
       THEN scraper_logged_in' = TRUE /\ logged_in' = TRUE
       ELSE UNCHANGED <<scraper_logged_in, logged_in>>
    /\ last' = Obs("login", IF outcome = "status_200" THEN "" ELSE outcome,
                   "-", "-", file, <<>>)
    /\ UNCHANGED <<file, bookings, call, ret>>

\* the Logout button
Logout ==
    /\ logged_in' = FALSE
    /\ bookings' = <<>>
    /\ scraper_logged_in' = FALSE
    /\ last' = Obs("logout", "", "-", "-", file, <<>>)
    /\ UNCHANGED <<file, call, ret>>

\* the Load from File button; no read is made of a file that is not there
LoadFromFile(read) ==
    LET ld == load_bookings_from_json(file, read)
    IN  /\ bookings' = IF ld.exc = "" THEN ld.value ELSE bookings
        /\ last' = Obs("load", ld.exc, read, "-", file, <<>>)
        /\ UNCHANGED <<file, logged_in, scraper_logged_in, call, ret>>

\* Refresh & Save that leaves the file and the session list alone when the
\* scrape returned nothing
RefreshAndSave_keep(overview, read, write) ==
    /\ logged_in
    /\ \E tripaneer_bookings \in {extract_booking_data(scraper_logged_in, overview)},
          ld \in {load_bookings_from_json(file, read)} :
          IF ld.exc # ""
          THEN /\ last' = Obs("refresh", ld.exc, read, "-", file, tripaneer_bookings)
               /\ UNCHANGED <<file, bookings>>
          ELSE IF tripaneer_bookings = <<>>
          THEN /\ last' = Obs("refresh", "", read, write, file, tripaneer_bookings)
               /\ UNCHANGED <<file, bookings>>
          ELSE \E all_bookings \in {tripaneer_bookings \o SelectSeq(ld.value, IsManual)} :
                  /\ file' = save_bookings_to_json(file, all_bookings, write)
                  /\ bookings' = all_bookings
                  /\ last' = Obs("refresh", "", read, write, file, tripaneer_bookings)
    /\ UNCHANGED <<logged_in, scraper_logged_in, call, ret>>

\* the Refresh & Save to File button, shown while session_state.logged_in
RefreshAndSave(overview, read, write) ==
    /\ logged_in
    /\ \E tripaneer_bookings \in {extract_booking_data(scraper_logged_in, overview)},
          ld \in {load_bookings_from_json(file, read)} :
          IF ld.exc # ""
          THEN /\ last' = Obs("refresh", ld.exc, read, "-", file, tripaneer_bookings)
               /\ UNCHANGED <<file, bookings>>
          ELSE \E all_bookings \in {tripaneer_bookings \o SelectSeq(ld.value, IsManual)} :
                  /\ file' = save_bookings_to_json(file, all_bookings, write)
                  /\ bookings' = all_bookings
                  /\ last' = Obs("refresh", "", read, write, file, tripaneer_bookings)
    /\ UNCHANGED <<logged_in, scraper_logged_in, call, ret>>

\* Add Manual Booking offered whatever the session list holds
AddManualBooking_always(form, now, read, write) ==
    /\ IF form_incomplete(form)
       THEN /\ last' = Obs("add", "rejected", "-", "-", file, <<>>)
            /\ UNCHANGED <<file, bookings>>
       ELSE \E ld \in {load_bookings_from_json(file, read)},
               booking_data \in {manual_booking(form, now)} :
               /\ Len(SelectSeq(ld.value, IsManual)) < MaxManual
               /\ IF ld.exc # ""
                  THEN /\ last' = Obs("add", ld.exc, read, "-", file, <<booking_data>>)
                       /\ UNCHANGED <<file, bookings>>
                  ELSE \E current_bookings \in {ld.value \o <<booking_data>>} :
                          /\ file' = save_bookings_to_json(file, current_bookings, write)
                          /\ bookings' = current_bookings
                          /\ last' = Obs("add", "", read, write, file, <<booking_data>>)
    /\ UNCHANGED <<logged_in, scraper_logged_in, call, ret>>

\* Add Manual Booking that sets the session list only when the file was
\* written
AddManualBooking_saved(form, now, read, write) ==
    /\ bookings # <<>>
    /\ IF form_incomplete(form)
       THEN /\ last' = Obs("add", "rejected", "-", "-", file, <<>>)
            /\ UNCHANGED <<file, bookings>>
       ELSE \E ld \in {load_bookings_from_json(file, read)},
               booking_data \in {manual_booking(form, now)} :
               /\ Len(SelectSeq(ld.value, IsManual)) < MaxManual
               /\ IF ld.exc # ""
                  THEN /\ last' = Obs("add", ld.exc, read, "-", file, <<booking_data>>)
                       /\ UNCHANGED <<file, bookings>>
                  ELSE \E current_bookings \in {ld.value \o <<booking_data>>} :
                          /\ file' = save_bookings_to_json(file, current_bookings, write)
                          /\ bookings' = IF write = "ok" THEN current_bookings ELSE bookings
                          /\ last' = Obs("add", "", read, write, file, <<booking_data>>)
    /\ UNCHANGED <<logged_in, scraper_logged_in, call, ret>>

\* the Add Booking button of add_manual_booking_form; the form is in a tab
\* that main() shows while session_state.bookings is not empty
AddManualBooking(form, now, read, write) ==
    /\ bookings # <<>>
    /\ IF form_incomplete(form)
       THEN /\ last' = Obs("add", "rejected", "-", "-", file, <<>>)
            /\ UNCHANGED <<file, bookings>>
       ELSE \E ld \in {load_bookings_from_json(file, read)},
               booking_data \in {manual_booking(form, now)} :
               /\ Len(SelectSeq(ld.value, IsManual)) < MaxManual
               /\ IF ld.exc # ""
                  THEN /\ last' = Obs("add", ld.exc, read, "-", file, <<booking_data>>)
                       /\ UNCHANGED <<file, bookings>>
                  ELSE \E current_bookings \in {ld.value \o <<booking_data>>} :
                          /\ file' = save_bookings_to_json(file, current_bookings, write)
                          /\ bookings' = current_bookings
                          /\ last' = Obs("add", "", read, write, file, <<booking_data>>)
    /\ UNCHANGED <<logged_in, scraper_logged_in, call, ret>>

Next ==
    \/ \E outcome \in {"status_200", "status_other", "exception"} : Login(outcome)
    \/ Logout
    \/ \E read \in Reads(file) : LoadFromFile(read)
    \/ \E overview \in Overviews, read \in Reads(file), write \in WriteOutcomes :
          RefreshAndSave(overview, read, write)
    \/ \E form \in Forms, now \in Days, read \in Reads(file), write \in WriteOutcomes :
          AddManualBooking(form, now, read, write)

Spec == Init /\ [][Next]_vars

---------------------------------------------------------------------------
(* The functions, each applied once to arguments drawn from bounded sets   *)

\* the most words of a package name
MaxWords == 3

\* the most bookings shown to display_booking_stats
MaxStats == 3

\* the most bookings shown to display_occupancy_by_hostel
MaxOcc == 2

\* the sequences over S of length at most n
SeqsUpTo(S, n) == UNION {[1..k -> S] : k \in 0..n}

WordSet ==
    { <<"7", " ", "D", "a", "y">>,
      <<"T", "a", "g", "h", "a", "z", "o", "u", "t">>,
      <<"t", "a", "g", "h", "a", "z", "o", "u", "t">>,
      <<"S", "u", "r", "f">>,
      <<"7">>,
      <<"D", "A", "Y">> }

RECURSIVE Join(_)
Join(ws) ==
    IF ws = <<>> THEN <<>>
    ELSE IF Len(ws) = 1 THEN ws[1]
    ELSE ws[1] \o <<" ">> \o Join(Tail(ws))

PackageNames ==
    {Join(ws) : ws \in SeqsUpTo(WordSet, MaxWords)}
        \cup {T_7DaySurfTaghazout, T_WeekendTamraght, T_7DayEssaouira}

DateTexts ==
    { y \o <<"-">> \o m \o <<"-">> \o d :
        y \in { <<"2", "0", "2", "3">>, <<"2", "0", "2", "4">> },
        m \in { <<"J", "a", "n">>, <<"F", "e", "b">>, <<"D", "e", "c">>, <<"F", "o", "o">> },
        d \in { <<"0", "1">>, <<"2", "9">>, <<"3", "0">>, <<"5">> } }
      \cup {S_NotFound, <<>>}

GuestTexts == { <<"2">>, <<"3">>, <<" ", "4">>, S_NotFound, S_NotAvailable, <<"t", "w", "o">> }

\* a booking as extract_bookings_from_list builds it
Booking(arrival, departure, hostel, guests, type) ==
    [full_name |-> T_Bob, package_name |-> T_WeekendTamraght, hostel |-> hostel,
     price |-> T_Price, arrival_date |-> arrival, departure_date |-> departure,
     number_of_nights |-> IF arrival # S_NotFound /\ departure # S_NotFound
                          THEN calculate_nights(arrival, departure).value ELSE 0,
     number_of_guests |-> guests, room_type |-> S_NotFound,
     conversation_link |-> None, booking_type |-> type]

StatsBookings ==
    { Booking(T_Jan15, T_Feb02, S_Tamraght, g, t) :
        g \in GuestTexts, t \in {S_Current, S_Upcoming} }

T_Dec01 == <<"2", "0", "2", "3", "-", "D", "e", "c", "-", "0", "1">>

T_Feb10 == <<"2", "0", "2", "4", "-", "F", "e", "b", "-", "1", "0">>

OccBookings ==
    { Booking(T_Jan15, T_Feb02, S_Tamraght, <<"2">>, S_Current),
      Booking(T_Dec01, T_Dec31, S_Taghazout, <<"3">>, S_Current),
      Booking(S_NotFound, T_Feb02, S_Tamraght, <<"2">>, S_Upcoming),
      Booking(T_Jan15, T_Feb02, S_Taghazout, S_NotFound, S_Current),
      Booking(T_Feb02, T_Feb10, S_Taghazout, <<"3">>, S_Upcoming),
      Booking(T_Dec31, T_Jan15, S_Taghazout, <<"2">>, S_Current),
      Booking(T_Jan15, T_Feb02, S_Tamraght, <<"t", "w", "o">>, S_Upcoming) }

OccDates == {Date(2024, 1, 1), Date(2024, 1, 31), Date(2024, 2, 2)}

\* the most bookings shown to the movements of a day
MaxMov == 2

T_jan15 == <<"2", "0", "2", "4", "-", "j", "a", "n", "-", "1", "5">>

T_Jan16 == <<"2", "0", "2", "4", "-", "J", "a", "n", "-", "1", "6">>

MovBookings ==
    { Booking(T_Jan15, T_Feb02, S_Tamraght, <<"2">>, S_Current),
      Booking(T_Jan15, T_Jan15, S_Taghazout, <<"1">>, S_Current),
      Booking(T_jan15, T_Jan16, S_Taghazout, <<"1">>, S_Current),
      Booking(S_NotFound, T_Jan15, S_Tamraght, <<"2">>, S_Upcoming),
      Booking(T_Feb30, T_Jan16, S_Tamraght, <<"2">>, S_Upcoming),
      [Booking(T_Jan15, T_Jan15, S_Tamraght, <<"3">>, S_Upcoming)
          EXCEPT !.arrival_date = None] }

MovDates == {Date(2024, 1, 14), Date(2024, 1, 15), Date(2024, 2, 2)}

\* the most bookings shown to display_current_guests_by_hostel
MaxGroup == 2

GroupBookings ==
    { [Booking(T_Jan15, T_Feb02, h, <<"2">>, t) EXCEPT !.room_type = r] :
        h \in {S_Tamraght, S_Taghazout},
        r \in {T_Private, S_NotFound, S_NotAvailable},
        t \in {S_Current, S_Upcoming} }

\* the most items of a list shown to extract_bookings_from_list
MaxItems == 2

T_two == <<"t", "w", "o">>

T_DormShared == <<"D", "o", "r", "m", "\n", "S", "h", "a", "r", "e", "d">>

\* the conversation pages: found; not reached; answered with status 500;
\* an exception after the guests are read; an exception before; a page
\* without the two values; values of another shape
Pages ==
    { PageOk, PageDown,
      [PageOk EXCEPT !.status = 500],
      [PageOk EXCEPT !.fault = "room"],
      [PageOk EXCEPT !.fault = "guests"],
      [PageOk EXCEPT !.guests = None, !.room = None],
      [PageOk EXCEPT !.guests = T_two, !.room = T_DormShared] }

\* list items with each of their parts missing in turn
ListItems ==
    { ItemA, ItemB, ItemC, ItemD, ItemE,
      [ItemA EXCEPT !.name_div = FALSE, !.name = None],
      [ItemA EXCEPT !.title_div = FALSE, !.title = None],
      [ItemA EXCEPT !.title = None],
      [ItemA EXCEPT !.strongs = <<>>],
      [ItemA EXCEPT !.strongs = <<T_Price>>],
      [ItemA EXCEPT !.strongs = <<T_Price, T_Jan15>>],
      [ItemA EXCEPT !.btn_href = <<>>, !.mobile_href = T_Href2],
      [ItemA EXCEPT !.btn_href = None] }
    \cup {[ItemA EXCEPT !.page = p] : p \in Pages}

FnOverviews ==
    Overviews
    \cup { [fault |-> FALSE, status |-> HTTP_OK, lists |-> <<>>],
           [fault |-> FALSE, status |-> HTTP_OK, lists |-> << <<ItemA, ItemB>> >>],
           [fault |-> FALSE, status |-> HTTP_OK, lists |-> << <<>>, <<ItemA>> >>],
           [fault |-> FALSE, status |-> HTTP_OK,
            lists |-> << <<ItemA>>, <<ItemB>>, <<ItemD>> >>],
           [fault |-> TRUE, status |-> HTTP_OK, lists |-> << <<ItemA>>, <<ItemB>> >>],
           [fault |-> FALSE, status |-> 404, lists |-> << <<ItemA>>, <<ItemB>> >>] }

\* the days entered in the form, and the days it is submitted on
FormDates == {Date(2023, 12, 31), Date(2024, 1, 14), Date(2024, 1, 15), Date(2024, 2, 2)}

FnDays == {Date(2024, 1, 1), Date(2024, 1, 15), Date(2024, 2, 2)}

FnForms ==
    { [FormA EXCEPT !.arrival_date = a, !.departure_date = d, !.package_name = pk,
                    !.price = pr, !.conversation_link = lk] :
        a \in FormDates, d \in FormDates, pk \in {<<>>, T_7DaySurfTaghazout},
        pr \in {<<>>, S_NA}, lk \in {<<>>, base_url \o T_Href1} }

StoredLists == {<<>>} \cup {<<b>> : b \in OccBookings}

Files ==
    {NoFile, TruncatedFile, UndecodableFile} \cup {JsonFile(json_dump(bs)) : bs \in StoredLists}

Calls ==
    {[fn |-> "calculate_nights", arrival_date |-> a, departure_date |-> d] :
        a \in DateTexts, d \in DateTexts}
    \cup {[fn |-> "determine_hostel", package_name |-> n] : n \in PackageNames}
    \cup UNION {{[fn |-> "load_bookings_from_json", file |-> f, read |-> r] :
                    r \in Reads(f)} : f \in Files}
    \cup {[fn |-> "display_booking_stats", bookings |-> bs] :
        bs \in SeqsUpTo(StatsBookings, MaxStats)}
    \cup {[fn |-> "display_occupancy_by_hostel", bookings |-> bs,
           selected_hostel |-> h, start |-> s, end |-> e] :
        bs \in SeqsUpTo(OccBookings, MaxOcc),
        h \in {S_All, S_Tamraght, S_Taghazout}, s \in OccDates, e \in OccDates}
    \cup {[fn |-> "display_specific_day_movements", bookings |-> bs,
           selected_date |-> d] :
        bs \in SeqsUpTo(MovBookings, MaxMov), d \in MovDates}
    \cup {[fn |-> "display_todays_movements", bookings |-> bs, today |-> d] :
        bs \in SeqsUpTo(MovBookings, MaxMov), d \in MovDates}
    \cup {[fn |-> "display_current_guests_by_hostel", bookings |-> bs] :
        bs \in SeqsUpTo(GroupBookings, MaxGroup)}
    \cup {[fn |-> "extract_guest_and_room_info", page |-> pg] : pg \in Pages}
    \cup {[fn |-> "add_manual_booking_form", form |-> f, now |-> d] :
        f \in FnForms, d \in FnDays}
    \cup {[fn |-> "app_extract_booking_data", overview |-> o] :
        o \in {v \in FnOverviews : ~v.fault}
             \cup {[fault |-> FALSE, status |-> HTTP_OK, lists |-> << <<it>> >>] :
                      it \in ListItems}}
    \cup {[fn |-> "extract_bookings_from_list", booking_items |-> items,
           booking_type |-> t] :
        items \in SeqsUpTo(ListItems, MaxItems), t \in {S_current, S_upcoming}}
    \cup {[fn |-> "extract_booking_data", logged_in |-> li, overview |-> o] :
        li \in BOOLEAN, o \in FnOverviews}

InitFn ==
    /\ file = NoFile
    /\ bookings = <<>>
    /\ logged_in = FALSE
    /\ scraper_logged_in = FALSE
    /\ last = Obs("start", "", "-", "-", NoFile, <<>>)
    /\ call \in Calls
    /\ ret = NoRet

Return(value) ==
    /\ ~ret.done
    /\ ret' = [done |-> TRUE, value |-> value]
    /\ UNCHANGED <<file, bookings, logged_in, scraper_logged_in, last, call>>

Call_calculate_nights ==
    /\ call.fn = "calculate_nights"
    /\ Return(calculate_nights(call.arrival_date, call.departure_date))

Call_determine_hostel ==
    /\ call.fn = "determine_hostel"
    /\ Return(determine_hostel(call.package_name))

Call_load_bookings_from_json ==
    /\ call.fn = "load_bookings_from_json"
    /\ Return(load_bookings_from_json(call.file, call.read))

Call_display_booking_stats ==
    /\ call.fn = "display_booking_stats"
    /\ Return(display_booking_stats(call.bookings))

Call_display_occupancy_by_hostel ==
    /\ call.fn = "display_occupancy_by_hostel"
    /\ Return(display_occupancy_by_hostel(call.bookings, call.selected_hostel,
                                          call.start, call.end))

Call_display_specific_day_movements ==
    /\ call.fn = "display_specific_day_movements"
    /\ Return(display_specific_day_movements(call.bookings, call.selected_date))

Call_display_todays_movements ==
    /\ call.fn = "display_todays_movements"
    /\ Return(display_todays_movements(call.bookings, call.today))

Call_display_current_guests_by_hostel ==
    /\ call.fn = "display_current_guests_by_hostel"
    /\ Return(display_current_guests_by_hostel(call.bookings))

Call_extract_guest_and_room_info ==
    /\ call.fn = "extract_guest_and_room_info"
    /\ Return(extract_guest_and_room_info(call.page))

Call_extract_bookings_from_list ==
    /\ call.fn = "extract_bookings_from_list"
    /\ Return([value |-> extract_bookings_from_list(call.booking_items,
                                                    call.booking_type),
               gets |-> extract_bookings_from_list_gets(call.booking_items,
                                                        call.booking_type),
               warnings |-> extract_bookings_from_list_warnings(call.booking_items,
                                                                call.booking_type)])

Call_extract_booking_data ==
    /\ call.fn = "extract_booking_data"
    /\ Return([value |-> extract_booking_data(call.logged_in, call.overview),
               gets |-> extract_booking_data_gets(call.logged_in, call.overview),
               error |-> extract_booking_data_error(call.logged_in, call.overview)])

\* booking_data of a form that is submitted with its required fields
Call_add_manual_booking_form ==
    /\ call.fn = "add_manual_booking_form"
    /\ ~form_incomplete(call.form)
    /\ Return(manual_booking(call.form, call.now))

Call_app_extract_booking_data ==
    /\ call.fn = "app_extract_booking_data"
    /\ Return(app_extract_booking_data(call.overview))

NextFn ==
    \/ Call_calculate_nights
    \/ Call_determine_hostel
    \/ Call_load_bookings_from_json
    \/ Call_display_booking_stats
    \/ Call_display_occupancy_by_hostel
    \/ Call_display_specific_day_movements
    \/ Call_display_todays_movements
    \/ Call_display_current_guests_by_hostel
    \/ Call_extract_guest_and_room_info
    \/ Call_extract_bookings_from_list
    \/ Call_extract_booking_data
    \/ Call_add_manual_booking_form
    \/ Call_app_extract_booking_data

SpecFn == InitFn /\ [][NextFn]_vars

---------------------------------------------------------------------------
(* Properties                                                              *)

\* the stored object is a booking with source 'manual'
DocIsManual(obj) ==
    "source" \in DOMAIN obj /\ obj.source = [t |-> "string", s |-> S_manual, n |-> 0]

\* the last handler was op, and it read bookings.json (where there was one)
\* and wrote it without an I/O error
Completed(op) ==
    last.op = op /\ last.exc = "" /\ last.read = "ok" /\ last.write = "ok"

C2_ManualKept ==
    [][ last'.write # "IOError_open" /\ last'.write # "IOError_write" =>
          \A i \in 1..Len(file.doc) :
              DocIsManual(file.doc[i]) =>
                  \E j \in 1..Len(file'.doc) : file'.doc[j] = file.doc[i] ]_vars

\* C3: load returns the empty sequence and raises nothing when the file is
\* absent, cannot be read or holds no decodable JSON document, and returns
\* the stored sequence otherwise.
C3_LoadTotal ==
    (call.fn = "load_bookings_from_json" /\ ret.done) =>
        /\ ret.value.exc = ""
        /\ ret.value.value =
              IF call.file.kind = "json" /\ call.read = "ok"
              THEN json_load(call.file.doc)
              ELSE <<>>

\* C4: the list a handler saved is the list a load of the file returns, with
\* the same order and the same value in every field.
C4_RoundTrip ==
    (last.op \in {"refresh", "add"} /\ last.exc = "" /\ last.write = "ok") =>
        /\ load_bookings_from_json(file, "ok").exc = ""
        /\ load_bookings_from_json(file, "ok").value = bookings

\* a saved list that holds an int, a str and a None, in two bookings with
\* different sets of keys
C4_Witness ==
    /\ last.op = "add" /\ last.exc = "" /\ last.write = "ok"
    /\ Len(bookings) >= 2
    /\ \E i, j, k \in 1..Len(bookings) :
          /\ bookings[i].conversation_link = None
          /\ bookings[k].number_of_nights > 0
          /\ IsManual(bookings[j])

Parses(text) == strptime(text).err = ""

DaysBetween(arrival, departure) ==
    Ordinal(strptime(departure).date) - Ordinal(strptime(arrival).date)

NightsOk(b) ==
    /\ b.number_of_nights >= 0
    /\ (Parses(b.arrival_date) /\ Parses(b.departure_date)) =>
          b.number_of_nights = Max(DaysBetween(b.arrival_date, b.departure_date), 1)
    /\ b.number_of_nights = 0 =>
          (~Parses(b.arrival_date) \/ ~Parses(b.departure_date))

StoredBookings == IF file.kind = "json" THEN json_load(file.doc) ELSE <<>>

\* C6: every booking of the session list and of bookings.json has
\* number_of_nights >= 0, equal to max(departure - arrival in days, 1) when
\* both of its dates parse, and 0 only when one of them does not parse.
C6_NightsInvariant ==
    /\ \A i \in 1..Len(bookings) : NightsOk(bookings[i])
    /\ \A i \in 1..Len(StoredBookings) : NightsOk(StoredBookings[i])

HasBoth(package_name) ==
    /\ Contains(Lower(package_name), S_7day)
    /\ Contains(Lower(package_name), S_taghazout)

\* C7: classify_hostel returns 'Taghazout' exactly when the lower-cased
\* package name contains '7 day' and 'taghazout', and 'Tamraght' for every
\* other name.
C7_Hostel ==
    (call.fn = "determine_hostel" /\ ret.done) =>
        /\ ret.value \in {S_Taghazout, S_Tamraght}
        /\ ret.value = S_Taghazout <=> HasBoth(call.package_name)
        /\ call.package_name = T_7DaySurfTaghazout => ret.value = S_Taghazout
        /\ call.package_name = T_WeekendTamraght => ret.value = S_Tamraght
        /\ call.package_name = T_7DayEssaouira => ret.value = S_Tamraght

\* a name with one of the two substrings alone
C7_Witness ==
    /\ call.fn = "determine_hostel" /\ ret.done
    /\ call.package_name = T_7DayEssaouira
    /\ ret.value = S_Tamraght

HostelOk(b) ==
    /\ b.hostel \in {S_Taghazout, S_Tamraght}
    /\ b.hostel = S_Taghazout <=> HasBoth(b.package_name)

\* C8 as claimed: for every booking of the session list and of
\* bookings.json, scraped or manual, hostel is 'Taghazout' if and only if
\* the package name contains '7 day' and 'taghazout' whatever the case of
\* its letters.
C8_HostelAll ==
    /\ \A i \in 1..Len(bookings) : HostelOk(bookings[i])
    /\ \A i \in 1..Len(StoredBookings) : HostelOk(StoredBookings[i])

\* C8: for every scraped booking of the session list and of bookings.json,
\* hostel is 'Taghazout' if and only if the package name contains '7 day'
\* and 'taghazout' whatever the case of its letters, and 'Tamraght'
\* otherwise; the hostel of a manual booking is one of the two, as chosen
\* in the form.
C8_HostelScraped ==
    /\ \A i \in 1..Len(bookings) :
          IF IsManual(bookings[i])
          THEN bookings[i].hostel \in {S_Taghazout, S_Tamraght}
          ELSE HostelOk(bookings[i])
    /\ \A i \in 1..Len(StoredBookings) :
          IF IsManual(StoredBookings[i])
          THEN StoredBookings[i].hostel \in {S_Taghazout, S_Tamraght}
          ELSE HostelOk(StoredBookings[i])

\* bookings.json holds a scraped booking of each hostel
C8_Witness ==
    /\ \E i \in 1..Len(StoredBookings) :
          ~IsManual(StoredBookings[i]) /\ StoredBookings[i].hostel = S_Taghazout
    /\ \E i \in 1..Len(StoredBookings) :
          ~IsManual(StoredBookings[i]) /\ StoredBookings[i].hostel = S_Tamraght
    /\ \E i \in 1..Len(bookings) : ~IsManual(bookings[i])

\* the sum of the guest counts that are integers
RECURSIVE SumOfIntegers(_)
SumOfIntegers(bs) ==
    IF bs = <<>> THEN 0
    ELSE (IF int(Head(bs).number_of_guests).ok
          THEN int(Head(bs).number_of_guests).value ELSE 0)
         + SumOfIntegers(Tail(bs))

\* C9: stats of a list of bookings: total is the number of bookings,
\* current_count and upcoming_count the numbers of 'Current' and of
\* 'Upcoming' bookings, total_guests the sum of number_of_guests over the
\* bookings whose value is an integer; any other value adds 0 and raises
\* nothing.
C9_Stats ==
    (call.fn = "display_booking_stats" /\ ret.done /\ call.bookings # <<>>) =>
        LET bs == call.bookings
        IN  /\ ret.value.shown
            /\ ret.value.total = Len(bs)
            /\ ret.value.current =
                  Cardinality({i \in 1..Len(bs) : bs[i].booking_type = S_Current})
            /\ ret.value.upcoming =
                  Cardinality({i \in 1..Len(bs) : bs[i].booking_type = S_Upcoming})
            /\ ret.value.total_guests = SumOfIntegers(bs)

\* the guests "2", "Not found", "3": 5 in all
C9_Witness ==
    /\ call.fn = "display_booking_stats" /\ ret.done
    /\ Len(call.bookings) = 3
    /\ call.bookings[1].number_of_guests = <<"2">>
    /\ call.bookings[2].number_of_guests = S_NotFound
    /\ call.bookings[3].number_of_guests = <<"3">>
    /\ ret.value.total_guests = 5

\* the selection of the claim
Selected(b, selected_hostel, start, end) ==
    /\ Parses(b.arrival_date) /\ Parses(b.departure_date)
    /\ int(b.number_of_guests).ok
    /\ Ordinal(strptime(b.arrival_date).date) <= Ordinal(end)
    /\ Ordinal(strptime(b.departure_date).date) >= Ordinal(start)
    /\ (b.hostel = selected_hostel \/ selected_hostel = S_All)

\* C10: occupancy of a range with start <= end: a booking is selected if
\* and only if both of its dates parse, its number_of_guests is an integer,
\* arrival <= end, departure >= start, and its hostel is the filter or the
\* filter is 'All'; the guests of a hostel are the sum of the guest counts
\* of its selected bookings.
C10_Occupancy ==
    (call.fn = "display_occupancy_by_hostel" /\ ret.done
        /\ Ordinal(call.start) <= Ordinal(call.end)) =>
        LET Sel(b) == Selected(b, call.selected_hostel, call.start, call.end)
            chosen == SelectSeq(call.bookings, Sel)
            OfHostel(h) == LET At(b) == b.hostel = h IN SelectSeq(chosen, At)
        IN  /\ ~ret.value.error
            /\ ret.value.filtered = chosen
            /\ DOMAIN ret.value.guests = {chosen[i].hostel : i \in 1..Len(chosen)}
            /\ \A h \in DOMAIN ret.value.guests :
                  ret.value.guests[h] = SumOfIntegers(OfHostel(h))

\* the range 2024-01-01 to 2024-01-31: the stay from 2024-Jan-15 to
\* 2024-Feb-02 is selected, the stay that ends on 2023-Dec-31 is not
C10_Witness ==
    /\ call.fn = "display_occupancy_by_hostel" /\ ret.done
    /\ call.selected_hostel = S_All
    /\ call.start = Date(2024, 1, 1) /\ call.end = Date(2024, 1, 31)
    /\ Len(call.bookings) = 2
    /\ call.bookings[1].departure_date = T_Dec31
    /\ call.bookings[2].arrival_date = T_Jan15
    /\ call.bookings[2].departure_date = T_Feb02
    /\ call.bookings[2].number_of_guests = <<"2">>
    /\ ret.value.filtered = <<call.bookings[2]>>
    /\ ret.value.guests[S_Tamraght] = 2

\* C11: the departure buckets of every hostel are written in ascending
\* order of departure date: a bucket of an earlier day of the calendar comes
\* before a bucket of a later day, whatever the months and years.
C11_BucketsAscending ==
    (call.fn = "display_occupancy_by_hostel" /\ ret.done) =>
        \A h \in DOMAIN ret.value.departures :
            LET buckets == ret.value.departures[h]
            IN  \A i, j \in 1..Len(buckets) :
                    i < j =>
                        Ordinal(strptime(buckets[i].date_str).date)
                            < Ordinal(strptime(buckets[j].date_str).date)

\* C12: a range with start > end is rejected with an error, and no
\* selection, guest total or departure bucket is made; a range with
\* start <= end, start = end among them, is accepted.
C12_StartAfterEnd ==
    (call.fn = "display_occupancy_by_hostel" /\ ret.done) =>
        /\ ret.value.error <=> Ordinal(call.start) > Ordinal(call.end)
        /\ ret.value.error =>
              /\ ret.value.filtered = <<>>
              /\ DOMAIN ret.value.guests = {}
              /\ DOMAIN ret.value.departures = {}

\* the range from 2024-02-02 to 2024-01-01 over a booking that stays from
\* 2024-Jan-15 to 2024-Feb-02: rejected, nothing selected
C12_Witness ==
    /\ call.fn = "display_occupancy_by_hostel" /\ ret.done
    /\ Len(call.bookings) = 1
    /\ call.bookings[1].arrival_date = T_Jan15
    /\ call.bookings[1].departure_date = T_Feb02
    /\ call.bookings[1].number_of_guests = <<"2">>
    /\ call.start = Date(2024, 2, 2) /\ call.end = Date(2024, 1, 1)
    /\ ret.value.error
    /\ ret.value.filtered = <<>>

\* the records of bs whose date under key parses to the day of ordinal n
OnDay(bs, key, n) ==
    LET Hit(b) == Parses(b[key]) /\ Ordinal(strptime(b[key]).date) = n
    IN  SelectSeq(bs, Hit)

\* C13: the movements of a day: arrivals are exactly the records whose
\* arrival_date parses to the day and departures exactly the records whose
\* departure_date parses to it, both in the order of the input; a record
\* whose date is 'Not found', null or does not parse is in neither list
\* for that date, and a record that arrives and departs on the day is in
\* both. The movements of today and tomorrow are those of the two days.
C13_Movements ==
    /\ (call.fn = "display_specific_day_movements" /\ ret.done) =>
          /\ ret.value.arrivals =
                OnDay(call.bookings, "arrival_date", Ordinal(call.selected_date))
          /\ ret.value.departures =
                OnDay(call.bookings, "departure_date", Ordinal(call.selected_date))
    /\ (call.fn = "display_todays_movements" /\ ret.done) =>
          /\ ret.value.today_arrivals =
                OnDay(call.bookings, "arrival_date", Ordinal(call.today))
          /\ ret.value.today_departures =
                OnDay(call.bookings, "departure_date", Ordinal(call.today))
          /\ ret.value.tomorrow_arrivals =
                OnDay(call.bookings, "arrival_date", Ordinal(call.today) + 1)
          /\ ret.value.tomorrow_departures =
                OnDay(call.bookings, "departure_date", Ordinal(call.today) + 1)

\* 2024-01-15: a record that arrives and departs that day is in both lists,
\* a record whose arrival_date is null and that departs that day is a
\* departure only
C13_Witness ==
    /\ call.fn = "display_specific_day_movements" /\ ret.done
    /\ call.selected_date = Date(2024, 1, 15)
    /\ Len(call.bookings) = 2
    /\ call.bookings[1].arrival_date = None
    /\ call.bookings[1].departure_date = T_Jan15
    /\ call.bookings[2].arrival_date = T_Jan15
    /\ call.bookings[2].departure_date = T_Jan15
    /\ ret.value.arrivals = <<call.bookings[2]>>
    /\ ret.value.departures = call.bookings

\* the room key of the claim: 'Unknown Room' for the two sentinels
RoomKey(b) ==
    IF b.room_type \in {S_NotFound, S_NotAvailable} THEN S_UnknownRoom ELSE b.room_type

\* C14: the grouping of the current guests holds exactly the records whose
\* booking_type is 'Current', each under its hostel and its room_type, and
\* a record whose room_type is 'Not found' or 'Not available' is under the
\* room key 'Unknown Room'.
C14_Grouping ==
    (call.fn = "display_current_guests_by_hostel" /\ ret.done) =>
        LET IsCurrent(b) == b.booking_type = S_Current
            current == SelectSeq(call.bookings, IsCurrent)
            Under(h, r) ==
                LET In(b) == b.hostel = h /\ RoomKey(b) = r IN SelectSeq(current, In)
        IN  /\ DOMAIN ret.value = {current[i].hostel : i \in 1..Len(current)}
            /\ \A h \in DOMAIN ret.value :
                  /\ DOMAIN ret.value[h] =
                        {RoomKey(current[i]) : i \in {j \in 1..Len(current) :
                                                        current[j].hostel = h}}
                  /\ \A r \in DOMAIN ret.value[h] : ret.value[h][r] = Under(h, r)

\* the records of the items of a list, each item extracted on its own
RECURSIVE RecordsOf(_, _)
RecordsOf(items, type) ==
    IF items = <<>> THEN <<>>
    ELSE extract_bookings_from_list(<<Head(items)>>, type) \o RecordsOf(Tail(items), type)

\* C15: extraction of a list of N items tolerates the failure of an item:
\* the error of item i is caught and reported, item i is left out, every
\* other item is still extracted, and the result is exactly the records of
\* the items that raised nothing, in the order of the page.
C15_PartialFailure ==
    (call.fn = "extract_bookings_from_list" /\ ret.done) =>
        LET items == call.booking_items
            alone(i) == extract_bookings_from_list(<<items[i]>>, call.booking_type)
        IN  /\ ret.value.value = RecordsOf(items, call.booking_type)
            /\ \A i \in 1..Len(items) :
                  Len(alone(i)) = IF i \in ret.value.warnings THEN 0 ELSE 1
            /\ Len(ret.value.value) = Len(items) - Cardinality(ret.value.warnings)

\* an item that raises, then a complete one: the second is extracted
C15_Witness ==
    /\ call.fn = "extract_bookings_from_list" /\ ret.done
    /\ call.booking_items = <<ItemE, ItemA>>
    /\ ret.value.warnings = {1}
    /\ Len(ret.value.value) = 1
    /\ ret.value.value[1].full_name = T_Alice

\* C16: when the request for the bookings-overview page raises or is
\* answered with a status other than 200, extract_booking_data returns the
\* empty sequence, reports an error, extracts no list item and requests no
\* conversation page.
C16_TopLevelFailure ==
    (/\ call.fn = "extract_booking_data" /\ ret.done
     /\ call.logged_in
     /\ (call.overview.fault \/ call.overview.status # 200)) =>
        /\ ret.value.value = <<>>
        /\ ret.value.error # ""
        /\ ret.value.gets = <<bookings_url>>

\* an overview answered with status 404 whose body holds two lists
C16_Witness ==
    /\ call.fn = "extract_booking_data" /\ ret.done
    /\ call.logged_in
    /\ ~call.overview.fault /\ call.overview.status = 404
    /\ Len(call.overview.lists) = 2
    /\ ret.value.value = <<>>
    /\ ret.value.error = "Failed to fetch bookings page"

\* C17: whichever parts of a list item are missing (the customer-name
\* block, the name inside it, the listing-title block, the title inside it,
\* the inquiry-meta block, one of its three strong values, the link), the
\* item yields a record whose missing fields hold 'Not found' (for the
\* guests and the room of an item without link, 'Not available'): nothing
\* is raised and no item is dropped.
C17_NeverRaises ==
    (call.fn = "extract_bookings_from_list" /\ ret.done) =>
        LET items == call.booking_items
            out == ret.value.value
            Strong(it, k) == it.meta_div /\ Len(it.strongs) >= k
        IN  /\ ret.value.warnings = {}
            /\ Len(out) = Len(items)
            /\ \A i \in 1..Len(items) :
                  /\ (~items[i].name_div \/ items[i].name = None)
                        => out[i].full_name = S_NotFound
                  /\ (~items[i].title_div \/ items[i].title = None)
                        => out[i].package_name = S_NotFound
                  /\ ~Strong(items[i], 1) => out[i].price = S_NotFound
                  /\ ~Strong(items[i], 2) => out[i].arrival_date = S_NotFound
                  /\ ~Strong(items[i], 3) => out[i].departure_date = S_NotFound
                  /\ (~Truthy(items[i].btn_href) /\ ~Truthy(items[i].mobile_href))
                        => /\ out[i].number_of_guests = S_NotAvailable
                           /\ out[i].room_type = S_NotAvailable

\* C18: whenever the request for the conversation page or the reading of it
\* fails (the request raises, the status is not 200, something raises after
\* the guests were read), extract_guest_and_room_info returns 'Not found'
\* for number_of_guests and for room_type.
C18_BestEffort ==
    (/\ call.fn = "extract_guest_and_room_info" /\ ret.done
     /\ (call.page.fault # "none" \/ call.page.status # 200)) =>
        /\ ret.value.guests = S_NotFound
        /\ ret.value.room_type = S_NotFound

\* an item has a link when one of its two anchors holds an href
HasLink(it) == Truthy(it.btn_href) \/ Truthy(it.mobile_href)

\* C19: a list item with no link (neither the button nor the mobile one)
\* causes no request for a conversation page and yields a record whose
\* conversation_link is null and whose number_of_guests and room_type are
\* 'Not available'; an item with a link causes exactly one such request.
C19_AbsentLink ==
    (call.fn = "extract_bookings_from_list" /\ ret.done
        /\ Len(call.booking_items) = 1) =>
        LET it == call.booking_items[1]
        IN  IF HasLink(it)
            THEN Len(ret.value.gets) = 1
            ELSE /\ ret.value.gets = <<>>
                 /\ Len(ret.value.value) = 1
                 /\ ret.value.value[1].conversation_link = None
                 /\ ret.value.value[1].number_of_guests = S_NotAvailable
                 /\ ret.value.value[1].room_type = S_NotAvailable

\* C20: the records of the list container at index 0 have booking_type
\* 'Current', those of the container at index 1 'Upcoming', the former
\* come before the latter, and no other container is used: a page with one
\* container gives 'Current' records only, a third container gives nothing.
C20_TypeByList ==
    (/\ call.fn = "extract_booking_data" /\ ret.done
     /\ call.logged_in
     /\ ~call.overview.fault /\ call.overview.status = 200) =>
        LET lists == call.overview.lists
            first == IF Len(lists) >= 1 THEN RecordsOf(lists[1], S_current) ELSE <<>>
            second == IF Len(lists) >= 2 THEN RecordsOf(lists[2], S_upcoming) ELSE <<>>
            out == ret.value.value
        IN  /\ Len(out) = Len(first) + Len(second)
            /\ \A i \in 1..Len(out) :
                  IF i <= Len(first)
                  THEN /\ out[i].booking_type = S_Current
                       /\ out[i].full_name = first[i].full_name
                  ELSE /\ out[i].booking_type = S_Upcoming
                       /\ out[i].full_name = second[i - Len(first)].full_name

\* a page with three containers: one 'Current' and one 'Upcoming' record
C20_Witness ==
    /\ call.fn = "extract_booking_data" /\ ret.done
    /\ call.logged_in
    /\ Len(call.overview.lists) = 3
    /\ Len(ret.value.value) = 2
    /\ ret.value.value[1].full_name = T_Alice
    /\ ret.value.value[1].booking_type = S_Current
    /\ ret.value.value[2].full_name = T_Bob
    /\ ret.value.value[2].booking_type = S_Upcoming

\* C21: the booking_type of a manual entry is 'Current' exactly when
\* arrival <= today <= departure and 'Upcoming' in every other case, a stay
\* that is over and a stay whose departure is before its arrival among them.
C21_ManualType ==
    (call.fn = "add_manual_booking_form" /\ ret.done) =>
        LET a == Ordinal(call.form.arrival_date)
            d == Ordinal(call.form.departure_date)
            today == Ordinal(call.now)
        IN  /\ ret.value.booking_type \in {S_Current, S_Upcoming}
            /\ ret.value.booking_type = S_Current <=> (a <= today /\ today <= d)

\* on 2024-02-02, a stay from 2023-12-31 to 2024-01-15 is 'Upcoming'
C21_Witness ==
    /\ call.fn = "add_manual_booking_form" /\ ret.done
    /\ call.now = Date(2024, 2, 2)
    /\ call.form.arrival_date = Date(2023, 12, 31)
    /\ call.form.departure_date = Date(2024, 1, 15)
    /\ ret.value.booking_type = S_Upcoming

\* C22: an Add Manual Booking with its required fields appends exactly one
\* record with source 'manual' to the bookings stored in bookings.json and
\* rewrites the file, every stored record still there, unchanged and in its
\* place; an optional field left empty takes its default (price 'N/A',
\* conversation link 'Not found', guest count 1). A submission with an empty
\* required field leaves the file and the session list as they were.
C22_AddManual ==
    [][ last'.op = "add" =>
          IF last'.exc = "rejected"
          THEN file' = file /\ bookings' = bookings
          ELSE /\ Len(last'.made) = 1
               /\ last'.made[1].source = S_manual
               /\ last'.made[1].price # <<>>
               /\ last'.made[1].conversation_link # <<>>
               /\ int(last'.made[1].number_of_guests).value >= 1
               /\ last'.write = "ok" =>
                     /\ file'.kind = "json"
                     /\ file'.doc = file.doc \o json_dump(last'.made) ]_vars

\* C23: a record is never changed once it is made: after a run of any
\* handler, every record of bookings.json is either one the handler has
\* just made (scraped, or built from the form) or equal, field for field,
\* booking_type and number_of_nights among them, to a record that was in
\* the file before.
C23_Immutable ==
    [][ file'.kind = "json" =>
          \A j \in 1..Len(file'.doc) :
              \/ \E i \in 1..Len(file.doc) : file.doc[i] = file'.doc[j]
              \/ /\ last'.op \in {"refresh", "add"}
                 /\ \E k \in 1..Len(last'.made) :
                       file'.doc[j] = json_dump(last'.made)[k] ]_vars

\* a refresh that wrote scraped records and, after them, a manual record of
\* 18 nights that was in the file before
C23_Witness ==
    /\ last.op = "refresh" /\ last.exc = "" /\ last.write = "ok"
    /\ file.kind = "json"
    /\ Len(last.made) >= 1
    /\ Len(file.doc) = Len(last.made) + 1
    /\ DocIsManual(file.doc[Len(file.doc)])
    /\ file.doc[Len(file.doc)].number_of_nights.n = 18
    /\ \E i \in 1..Len(last.before.doc) : last.before.doc[i] = file.doc[Len(file.doc)]

\* C24: the extraction with a browser (app.py) and the extraction over HTTP
\* (web3.py) are interchangeable: for the same overview page and the same
\* conversation pages both return the same sequence of records, with the
\* same fields (booking_type among them), the same sentinel for a missing
\* field, the same conversation_link and the same number_of_guests text,
\* and both cover the current and the upcoming list.
C24_Interchangeable ==
    (call.fn = "app_extract_booking_data" /\ ret.done
        /\ call.overview.status = 200) =>
        ret.value = extract_booking_data(TRUE, call.overview)

\* C25: a Refresh & Save whose extraction returned the empty sequence still
\* rewrites bookings.json: the file then holds exactly the manual records
\* of the previous file, and every record scraped earlier is gone from the
\* file and from the session list although nothing new was obtained.
C25_EmptyScrape ==
    (Completed("refresh") /\ last.made = <<>>) =>
        /\ file.kind = "json"
        /\ file.doc = SelectSeq(last.before.doc, DocIsManual)
        /\ bookings = json_load(file.doc)
        /\ \A i \in 1..Len(bookings) : IsManual(bookings[i])

\* an empty scrape over a file that held a scraped and a manual record
C25_Witness ==
    /\ Completed("refresh") /\ last.made = <<>>
    /\ \E i, j \in 1..Len(last.before.doc) :
          DocIsManual(last.before.doc[i]) /\ ~DocIsManual(last.before.doc[j])
    /\ Len(file.doc) = 1
    /\ Len(bookings) = 1

\* what the last handler loaded from the file it found
LoadedBefore == load_bookings_from_json(last.before, last.read).value

\* C26: right after a Refresh & Save or an Add Manual Booking whose write
\* of the file succeeds, and after a Load from File whose read succeeds,
\* the session list is the content of bookings.json; when the write fails
\* the handler still ends without raising and the session list is the new
\* sequence, whatever the file then holds.
C26_SessionIsFile ==
    /\ (last.op \in {"refresh", "add"} /\ last.exc = "" /\ last.write = "ok") =>
          /\ file.kind = "json"
          /\ bookings = json_load(file.doc)
    /\ (last.op = "load" /\ last.exc = "" /\ last.read = "ok") =>
          bookings = StoredBookings
    /\ (last.op = "refresh" /\ last.write \in {"IOError_open", "IOError_write"}) =>
          /\ last.exc = ""
          /\ bookings = last.made \o SelectSeq(LoadedBefore, IsManual)
    /\ (last.op = "add" /\ last.write \in {"IOError_open", "IOError_write"}) =>
          /\ last.exc = ""
          /\ bookings = LoadedBefore \o last.made

\* an Add Manual Booking whose write failed after the file was opened: the
\* file is cut short and the session list ends with the new record
C26_Witness ==
    /\ last.op = "add" /\ last.write = "IOError_write"
    /\ file.kind = "truncated"
    /\ Len(bookings) >= 2
    /\ IsManual(bookings[Len(bookings)])

\* C27: Add Manual Booking is reachable only while the session list is not
\* empty: from the start (empty session list, no bookings.json) no manual
\* record is added before a Load from File or a Refresh & Save has put a
\* booking in the session list, and Logout, which empties the session list,
\* makes it unreachable until the next such load or refresh.
C27_AddNeedsBookings ==
    [][ /\ last'.op = "add" => bookings # <<>>
        /\ last'.op = "logout" => bookings' = <<>>
        /\ (bookings = <<>> /\ bookings' # <<>>) => last'.op \in {"load", "refresh"}
      ]_vars

\* after a Logout the session list is empty while bookings.json holds the
\* manual record added before it
C27_Witness ==
    /\ last.op = "logout"
    /\ bookings = <<>>
    /\ file.kind = "json"
    /\ \E i \in 1..Len(file.doc) : DocIsManual(file.doc[i])

\* C28: in every state that Login, with success or failure, and Logout
\* lead to, session_state.logged_in equals the scraper's logged_in; a Login
\* that fails leaves both flags as they were, so a user who is logged in
\* stays logged in; Logout sets both to false and empties the session list
\* without touching bookings.json; Refresh & Save runs only while the flag
\* is true.
C28_LoginFlags ==
    [][ /\ logged_in = scraper_logged_in
        /\ logged_in' = scraper_logged_in'
        /\ last'.op = "login" =>
              /\ IF last'.exc = ""
                 THEN logged_in' /\ scraper_logged_in'
                 ELSE logged_in' = logged_in /\ scraper_logged_in' = scraper_logged_in
              /\ file' = file /\ bookings' = bookings
        /\ last'.op = "logout" =>
              /\ ~logged_in' /\ ~scraper_logged_in'
              /\ bookings' = <<>>
              /\ file' = file
        /\ last'.op = "refresh" => logged_in
      ]_vars

\* a Login answered with another status than 200 while the user is logged
\* in: both flags are still true
C28_Witness ==
    /\ last.op = "login" /\ last.exc = "status_other"
    /\ logged_in /\ scraper_logged_in

\* C29: every record the program makes, from either list of the overview
\* or from the manual form, has booking_type 'Current' or 'Upcoming'; so
\* for every session list the total of the stats is current_count plus
\* upcoming_count.
C29_TypeDomain ==
    /\ last.op \in {"refresh", "add"} =>
          \A i \in 1..Len(last.made) :
              last.made[i].booking_type \in {S_Current, S_Upcoming}
    /\ \A i \in 1..Len(bookings) : bookings[i].booking_type \in {S_Current, S_Upcoming}
    /\ bookings # <<>> =>
          display_booking_stats(bookings).total
              = display_booking_stats(bookings).current
                  + display_booking_stats(bookings).upcoming

\* a session list of a 'Current' and an 'Upcoming' scraped record and a
\* manual record
C29_Witness ==
    /\ Len(bookings) = 3
    /\ ~IsManual(bookings[1]) /\ bookings[1].booking_type = S_Current
    /\ ~IsManual(bookings[2]) /\ bookings[2].booking_type = S_Upcoming
    /\ IsManual(bookings[3])
    /\ display_booking_stats(bookings).total = 3

\* the number of bookings in a sequence of buckets
RECURSIVE BucketSizes(_)
BucketSizes(buckets) ==
    IF buckets = <<>> THEN 0
    ELSE Len(Head(buckets).departures_list) + BucketSizes(Tail(buckets))

\* the guests in a sequence of buckets
RECURSIVE BucketGuests(_)
BucketGuests(buckets) ==
    IF buckets = <<>> THEN 0
    ELSE SumOfIntegers(Head(buckets).departures_list) + BucketGuests(Tail(buckets))

\* C30: the departure buckets partition the selection: every selected
\* booking is in exactly one bucket, that of its hostel and of its
\* departure date, so the guest total of a hostel is the sum of the guest
\* counts over its buckets; a selected booking that departs after the end
\* of the range is in a bucket too.
C30_BucketsPartition ==
    (call.fn = "display_occupancy_by_hostel" /\ ret.done /\ ~ret.value.error) =>
        LET chosen == ret.value.filtered
            deps == ret.value.departures
        IN  /\ DOMAIN deps = {chosen[i].hostel : i \in 1..Len(chosen)}
            /\ \A h \in DOMAIN deps :
                  LET OfHostel(b) == b.hostel = h
                  IN  /\ BucketSizes(deps[h]) = Len(SelectSeq(chosen, OfHostel))
                      /\ BucketGuests(deps[h]) = ret.value.guests[h]
                      /\ \A k, m \in 1..Len(deps[h]) :
                            k # m => deps[h][k].date_str # deps[h][m].date_str
                      /\ \A k \in 1..Len(deps[h]) :
                            LET Here(b) ==
                                    b.hostel = h /\ b.departure_date = deps[h][k].date_str
                            IN  deps[h][k].departures_list = SelectSeq(chosen, Here)

\* the range 2024-01-01 to 2024-01-31: two bookings of Tamraght that depart
\* on 2024-Feb-02, after the end of the range, are in the one bucket of that
\* day
C30_Witness ==
    /\ call.fn = "display_occupancy_by_hostel" /\ ret.done
    /\ call.start = Date(2024, 1, 1) /\ call.end = Date(2024, 1, 31)
    /\ S_Tamraght \in DOMAIN ret.value.departures
    /\ Len(ret.value.departures[S_Tamraght]) = 1
    /\ ret.value.departures[S_Tamraght][1].date_str = T_Feb02
    /\ Len(ret.value.departures[S_Tamraght][1].departures_list) = 2
    /\ ret.value.guests[S_Tamraght] = 4

====
